---- MODULE Spec2Model ----
(***************************************************************************)
(* Model of APIIntegration.py: the two fetch methods of class              *)
(* APIIntegration (fetch_weather_data, fetch_crypto_prices), the two       *)
(* display methods, and the interactive loop of main().                    *)
(*                                                                         *)
(* Python values are encoded so that values of different Python types can  *)
(* be compared: a JSON scalar is a record [t, n, s]; the return value of a *)
(* fetch is a record [kind, ...] with kind "None" or "dict".               *)
(***************************************************************************)
EXTENDS Integers, Sequences, FiniteSets, TLC

VARIABLES pc, choice, req, out, shown

vars == <<pc, choice, req, out, shown>>

(***************************************************************************)
(* Bounds of the model.                                                    *)
(***************************************************************************)
\* longest crypto_symbols list passed to fetch_crypto_prices
MaxSymbols == 2

(***************************************************************************)
(* JSON scalars.                                                           *)
(***************************************************************************)
Num(n) == [t |-> "num", n |-> n, s |-> ""]
Str(s) == [t |-> "str", n |-> 0, s |-> s]
Null == [t |-> "null", n |-> 0, s |-> ""]
\* the numbers upstream puts in a price entry, and those with JSON null
NumValues == {Num(0), Num(5)}

Values == NumValues \cup {Null}

\* dict.get(key, default) on a mapping modelled as a function
Get(d, key, default) == IF key \in DOMAIN d THEN d[key] ELSE default

(***************************************************************************)
(* requests.get: the outcomes of the single outbound call.                 *)
(* An exception is modelled by the set of handler classes it is an         *)
(* instance of; ConnectTimeout derives from both ConnectionError and       *)
(* Timeout.                                                                *)
(***************************************************************************)
ExcClasses(exc) ==
    CASE exc = "ReadTimeout" -> {"Timeout", "Exception"}
      [] exc = "ConnectTimeout" -> {"ConnectionError", "Timeout", "Exception"}
      [] exc = "ConnectionError" -> {"ConnectionError", "Exception"}
      [] OTHER -> {"Exception"}

\* transport exceptions raised by requests.get
TransportExcs == {"ReadTimeout", "ConnectTimeout", "ConnectionError", "TooManyRedirects"}

\* HTTP status codes of a completed exchange
StatusCodes == {200, 404, 500}

\* a print() call of a fetch method: which message, and what it interpolates
Line(msg, code, text) == [msg |-> msg, code |-> code, text |-> text]

\* the value a fetch method returns
None == [kind |-> "None"]

\* the outcome of one invocation: returned value, console lines, number of
\* outbound requests issued, whether response.json() was called
Outcome(ret, printed, sent, parsed) ==
    [ret |-> ret, printed |-> printed, sent |-> sent, parsed |-> parsed]

\* Handle with the ConnectionError clause placed before the Timeout clause
HandleBuggyOrder(api, exc, text, sent, parsed) ==
    IF "ConnectionError" \in ExcClasses(exc)
    THEN Outcome(None, <<Line("connect:" \o api, 0, "")>>, sent, parsed)
    ELSE IF "Timeout" \in ExcClasses(exc)
    THEN Outcome(None, <<Line("timeout", 0, "")>>, sent, parsed)
    ELSE Outcome(None, <<Line("exception", 0, text)>>, sent, parsed)

\* Handle issuing a second request after a timeout
HandleRetry(api, exc, text, sent, parsed) ==
    IF "Timeout" \in ExcClasses(exc)
    THEN Outcome(None, <<Line("timeout", 0, "")>>, sent + 1, parsed)
    ELSE IF "ConnectionError" \in ExcClasses(exc)
    THEN Outcome(None, <<Line("connect:" \o api, 0, "")>>, sent, parsed)
    ELSE Outcome(None, <<Line("exception", 0, text)>>, sent, parsed)

\* Handle returning None without printing
HandleSilent(api, exc, text, sent, parsed) ==
    Outcome(None, <<>>, sent, parsed)

\* the except clauses of a fetch method, in source order: Timeout,
\* ConnectionError, Exception; each prints one line and returns None
Handle(api, exc, text, sent, parsed) ==
    IF "Timeout" \in ExcClasses(exc)
    THEN Outcome(None, <<Line("timeout", 0, "")>>, sent, parsed)
    ELSE IF "ConnectionError" \in ExcClasses(exc)
    THEN Outcome(None, <<Line("connect:" \o api, 0, "")>>, sent, parsed)
    ELSE Outcome(None, <<Line("exception", 0, text)>>, sent, parsed)

\* StatusError with response.json() called before the status test
StatusErrorParsing(api, code) ==
    Outcome(None, <<Line("status:" \o api, code, "")>>, 1, TRUE)

\* the else branch of "if response.status_code == 200"
StatusError(api, code) ==
    Outcome(None, <<Line("status:" \o api, code, "")>>, 1, FALSE)

(***************************************************************************)
(* fetch_weather_data                                                      *)
(***************************************************************************)
\* the paths the dict literal subscripts, in evaluation order
WeatherRequired ==
    << "name", "sys.country", "main.temp", "main.feels_like", "main.humidity",
       "main.pressure", "weather[0].description", "wind.speed", "dt" >>

WeatherPaths == {WeatherRequired[i] : i \in DOMAIN WeatherRequired} \cup {"visibility"}

\* record key of weather_info filled from each path
WeatherKey(path) ==
    CASE path = "name" -> "city"
      [] path = "sys.country" -> "country"
      [] path = "main.temp" -> "temperature"
      [] path = "main.feels_like" -> "feels_like"
      [] path = "main.humidity" -> "humidity"
      [] path = "main.pressure" -> "pressure"
      [] path = "weather[0].description" -> "weather_description"
      [] path = "wind.speed" -> "wind_speed"
      [] path = "visibility" -> "visibility"
      [] path = "dt" -> "timestamp"

WeatherKeys == {WeatherKey(p) : p \in WeatherPaths}

\* the value upstream sends at a path (one fixed observation)
Upstream(path) ==
    CASE path = "name" -> Str("London")
      [] path = "sys.country" -> Str("GB")
      [] path = "main.temp" -> Num(12)
      [] path = "main.feels_like" -> Num(10)
      [] path = "main.humidity" -> Num(81)
      [] path = "main.pressure" -> Num(1012)
      [] path = "weather[0].description" -> Str("light rain")
      [] path = "wind.speed" -> Num(4)
      [] path = "visibility" -> Num(10000)
      [] path = "dt" -> Num(1700000000)

\* str.title() and datetime.fromtimestamp(..).strftime(..) on the observation
Title(v) == IF v = Str("light rain") THEN Str("Light Rain") ELSE v

Strftime(v) == IF v = Num(1700000000) THEN Str("2023-11-14 22:13:20") ELSE v

\* a parsed weather body is the set of paths present in it; shape "null" is
\* a body that parses to None, "invalid" one on which response.json() raises
WeatherBodies == [shape : {"object"}, paths : SUBSET WeatherPaths]
                    \cup {[shape |-> "null", paths |-> {}],
                          [shape |-> "invalid", paths |-> {}]}

\* index of the first required path missing from the body, 0 if none
RECURSIVE FirstMissing(_, _)
FirstMissing(paths, i) ==
    IF i > Len(WeatherRequired) THEN 0
    ELSE IF WeatherRequired[i] \notin paths THEN i
    ELSE FirstMissing(paths, i + 1)

\* WeatherInfo with every missing path defaulted to 'N/A'
WeatherInfoDefaulting(paths) ==
    [k \in WeatherKeys |->
        LET p == CHOOSE q \in WeatherPaths : WeatherKey(q) = k
        IN  IF p \notin paths THEN Str("N/A")
            ELSE IF k = "weather_description" THEN Title(Upstream(p))
            ELSE IF k = "timestamp" THEN Strftime(Upstream(p))
            ELSE Upstream(p)]

\* the weather_info dict literal; every required path is in paths, the
\* KeyError of a missing one is raised in ProjectWeather (text: its path)
WeatherInfo(paths) ==
    [k \in WeatherKeys |->
        LET p == CHOOSE q \in WeatherPaths : WeatherKey(q) = k
        IN  IF k = "visibility" THEN (IF p \in paths THEN Upstream(p) ELSE Str("N/A"))
            ELSE IF k = "weather_description" THEN Title(Upstream(p))
            ELSE IF k = "timestamp" THEN Strftime(Upstream(p))
            ELSE Upstream(p)]

\* ProjectWeather returning a record whatever paths are missing
ProjectWeatherPartial(body) ==
    IF body.shape = "invalid" THEN Handle("weather", "JSONDecodeError", "json", 1, TRUE)
    ELSE IF body.shape = "null" THEN Handle("weather", "TypeError", "subscript", 1, TRUE)
    ELSE Outcome([kind |-> "dict", val |-> WeatherInfoDefaulting(body.paths)], <<>>, 1, TRUE)

\* the body of "if response.status_code == 200" up to "return weather_info"
ProjectWeather(body) ==
    IF body.shape = "invalid" THEN Handle("weather", "JSONDecodeError", "json", 1, TRUE)
    ELSE IF body.shape = "null" THEN Handle("weather", "TypeError", "subscript", 1, TRUE)
    ELSE IF FirstMissing(body.paths, 1) # 0
    THEN Handle("weather", "KeyError", WeatherRequired[FirstMissing(body.paths, 1)], 1, TRUE)
    ELSE Outcome([kind |-> "dict", val |-> WeatherInfo(body.paths)], <<>>, 1, TRUE)

\* fetch_weather_data(city_name) against a transport outcome net:
\* net.exc # "" when requests.get raises, else net.status and net.body
fetch_weather_data(city_name, net) ==
    IF net.exc # "" THEN Handle("weather", net.exc, net.exc, 1, FALSE)
    ELSE IF net.status = 200 THEN ProjectWeather(net.body)
    ELSE StatusError("weather", net.status)

(***************************************************************************)
(* fetch_crypto_prices                                                     *)
(***************************************************************************)
\* keys of a price entry
Fields == {"usd", "usd_24h_change", "usd_market_cap", "usd_24h_vol"}

\* a price entry: a mapping from some of the fields to values
Entries(vals) == UNION {[F -> vals] : F \in SUBSET Fields}

\* parsed price bodies: an object keyed by some of ids, or null, or invalid
CryptoObjects(ids, vals) ==
    UNION {[shape : {"object"}, data : [K -> Entries(vals)]] : K \in SUBSET ids}

NullBody == [shape |-> "null", data |-> <<>>]

InvalidBody == [shape |-> "invalid", data |-> <<>>]

\* crypto_info: a dict, with its insertion order
EmptyInfo == [order |-> <<>>, map |-> <<>>]

\* crypto_info[symbol] = quote
Put(info, symbol, quote) ==
    [order |-> IF symbol \in DOMAIN info.map THEN info.order
               ELSE Append(info.order, symbol),
     map |-> [k \in DOMAIN info.map \cup {symbol} |->
                 IF k = symbol THEN quote ELSE info.map[k]]]

\* Quote with market_cap defaulted to 0
QuoteZeroCap(entry) ==
    [price |-> entry["usd"],
     change_24h |-> Get(entry, "usd_24h_change", Num(0)),
     market_cap |-> Get(entry, "usd_market_cap", Num(0)),
     volume_24h |-> Get(entry, "usd_24h_vol", Str("N/A"))]

\* the dict literal of one symbol; entry has a "usd" key
Quote(entry) ==
    [price |-> entry["usd"],
     change_24h |-> Get(entry, "usd_24h_change", Num(0)),
     market_cap |-> Get(entry, "usd_market_cap", Str("N/A")),
     volume_24h |-> Get(entry, "usd_24h_vol", Str("N/A"))]

\* Loop iterating the keys of the response instead of crypto_symbols
LoopResponseKeys(crypto_symbols, i, body, info) ==
    IF body.shape = "null" THEN [raised |-> "TypeError", text |-> "in", info |-> info]
    ELSE IF \E k \in DOMAIN body.data : "usd" \notin DOMAIN body.data[k]
    THEN [raised |-> "KeyError", text |-> "usd", info |-> info]
    ELSE [raised |-> "", text |-> "",
          info |-> [order |-> crypto_symbols,
                    map |-> [k \in DOMAIN body.data |-> Quote(body.data[k])]]]

\* Loop skipping a symbol whose entry has no "usd" key
RECURSIVE LoopSkipping(_, _, _, _)
LoopSkipping(crypto_symbols, i, body, info) ==
    IF i > Len(crypto_symbols) THEN [raised |-> "", text |-> "", info |-> info]
    ELSE IF body.shape = "null" THEN [raised |-> "TypeError", text |-> "in", info |-> info]
    ELSE LET symbol == crypto_symbols[i]
         IN  IF symbol \in DOMAIN body.data /\ "usd" \in DOMAIN body.data[symbol]
             THEN LoopSkipping(crypto_symbols, i + 1, body,
                               Put(info, symbol, Quote(body.data[symbol])))
             ELSE LoopSkipping(crypto_symbols, i + 1, body, info)

\* "for symbol in crypto_symbols" from index i on: the dict built, or the
\* exception raised inside the loop
RECURSIVE Loop(_, _, _, _)
Loop(crypto_symbols, i, body, info) ==
    IF i > Len(crypto_symbols) THEN [raised |-> "", text |-> "", info |-> info]
    ELSE IF body.shape = "null" THEN [raised |-> "TypeError", text |-> "in", info |-> info]
    ELSE LET symbol == crypto_symbols[i]
         IN  IF symbol \in DOMAIN body.data
             THEN IF "usd" \in DOMAIN body.data[symbol]
                  THEN Loop(crypto_symbols, i + 1, body,
                            Put(info, symbol, Quote(body.data[symbol])))
                  ELSE [raised |-> "KeyError", text |-> "usd", info |-> info]
             ELSE Loop(crypto_symbols, i + 1, body, info)

\* the body of "if response.status_code == 200" up to "return crypto_info"
ProjectCrypto(crypto_symbols, body) ==
    IF body.shape = "invalid" THEN Handle("crypto", "JSONDecodeError", "json", 1, TRUE)
    ELSE LET r == Loop(crypto_symbols, 1, body, EmptyInfo)
         IN  IF r.raised # "" THEN Handle("crypto", r.raised, r.text, 1, TRUE)
             ELSE Outcome([kind |-> "dict", val |-> r.info], <<>>, 1, TRUE)

\* fetch_crypto_prices skipping the network call for an empty list
fetch_crypto_pricesEmptyShortcut(crypto_symbols, net) ==
    IF crypto_symbols = <<>>
    THEN Outcome([kind |-> "dict", val |-> EmptyInfo], <<>>, 0, FALSE)
    ELSE IF net.exc # "" THEN Handle("crypto", net.exc, net.exc, 1, FALSE)
    ELSE IF net.status = 200 THEN ProjectCrypto(crypto_symbols, net.body)
    ELSE StatusError("crypto", net.status)

\* fetch_crypto_prices(crypto_symbols) against a transport outcome net
fetch_crypto_prices(crypto_symbols, net) ==
    IF net.exc # "" THEN Handle("crypto", net.exc, net.exc, 1, FALSE)
    ELSE IF net.status = 200 THEN ProjectCrypto(crypto_symbols, net.body)
    ELSE StatusError("crypto", net.status)

(***************************************************************************)
(* display_weather, display_crypto_prices                                  *)
(***************************************************************************)
\* what a display method printed: which block, the symbols whose lines were
\* all printed, and whether a format specification raised
Shown(what, symbols, crashed) == [what |-> what, symbols |-> symbols, crashed |-> crashed]

Nothing == Shown("nothing", <<>>, FALSE)

\* "if not weather_data: return", then the f-string prints
display_weather(weather_data) ==
    IF weather_data.kind = "None" THEN Nothing ELSE Shown("weather", <<>>, FALSE)

\* the format specifications :,.2f :+.2f :,.0f raise on a value that is no number
Formats(quote) ==
    /\ quote.price.t = "num"
    /\ quote.change_24h.t = "num"
    /\ quote.market_cap # Str("N/A") => quote.market_cap.t = "num"
    /\ quote.volume_24h # Str("N/A") => quote.volume_24h.t = "num"

\* "for symbol, data in crypto_data.items()" from index i on
RECURSIVE DisplayLoop(_, _, _)
DisplayLoop(info, i, done) ==
    IF i > Len(info.order) THEN Shown("crypto", done, FALSE)
    ELSE IF Formats(info.map[info.order[i]])
    THEN DisplayLoop(info, i + 1, Append(done, info.order[i]))
    ELSE Shown("crypto", done, TRUE)

\* "if not crypto_data: return": None and the empty dict are falsy
display_crypto_prices(crypto_data) ==
    IF crypto_data.kind = "None" THEN Nothing
    ELSE IF crypto_data.val.order = <<>> THEN Nothing
    ELSE DisplayLoop(crypto_data.val, 1, <<>>)

(***************************************************************************)
(* Console input: a line is a sequence of characters.                      *)
(***************************************************************************)
\* str.strip()
RECURSIVE LStrip(_)
LStrip(s) == IF s # <<>> /\ Head(s) = " " THEN LStrip(Tail(s)) ELSE s

RECURSIVE RStrip(_)
RStrip(s) ==
    IF s # <<>> /\ s[Len(s)] = " " THEN RStrip(SubSeq(s, 1, Len(s) - 1)) ELSE s

Strip(s) == RStrip(LStrip(s))

\* str.lower()
LowerChar(c) ==
    CASE c = "B" -> "b"
      [] c = "E" -> "e"
      [] c = "D" -> "d"
      [] OTHER -> c

Lower(s) == [i \in DOMAIN s |-> LowerChar(s[i])]

\* the string made of the characters of s
RECURSIVE Join(_)
Join(s) == IF s = <<>> THEN "" ELSE Head(s) \o Join(Tail(s))

(***************************************************************************)
(* Inputs: what the transport answers and what the user types.             *)
(***************************************************************************)
\* asset ids the price endpoint knows
Ids == {"bitcoin", "ethereum"}

\* the list main() asks for first
InitialSymbols == <<"bitcoin", "ethereum", "cardano", "solana">>

\* crypto_symbols arguments: all lists over Ids up to MaxSymbols long
SymbolLists == UNION {[1..n -> Ids] : n \in 0..MaxSymbols}

\* requests.get raising exc
Raises(exc, body) == [exc |-> exc, status |-> 0, body |-> body]

\* requests.get returning a response
Responds(status, body) == [exc |-> "", status |-> status, body |-> body]

\* bodies of error responses: not JSON, null, or an object without the data
WeatherErrorBodies ==
    {b \in WeatherBodies : b.shape # "object" \/ b.paths = {}}

CryptoErrorBodies == {InvalidBody, NullBody, [shape |-> "object", data |-> <<>>]}

WeatherNets ==
    {Raises(e, [shape |-> "invalid", paths |-> {}]) : e \in TransportExcs}
        \cup {Responds(200, b) : b \in WeatherBodies}
        \cup {Responds(c, b) : c \in StatusCodes \ {200}, b \in WeatherErrorBodies}

CryptoNets(objects) ==
    {Raises(e, InvalidBody) : e \in TransportExcs}
        \cup {Responds(200, b) : b \in objects \cup {NullBody, InvalidBody}}
        \cup {Responds(c, b) : c \in StatusCodes \ {200}, b \in CryptoErrorBodies}

\* price objects answered to the calls of the API specification
ApiObjects == CryptoObjects(Ids, NumValues)

\* price objects answered to main(): at most one asset, any value
MainObjects ==
    UNION {[shape : {"object"}, data : [K -> Entries(Values)]] :
              K \in {{}} \cup {{id} : id \in Ids}}

\* lines typed at the prompts
ChoiceInputs ==
    { <<"1">>, <<"2">>, <<"3">>, <<" ", "3", " ">>, <<"3", "3">>, <<"4">>, <<>> }

CityInputs == { <<>>, <<" ">>, <<"R", "i", "o">>, <<" ", "R", "i", "o", " ">> }

CryptoInputs ==
    { <<>>, <<" ", " ">>, <<"B", "i", "t", "c", "o", "i", "n">>,
      <<"e", "t", "h", "e", "r", "e", "u", "m", " ">>, <<"D", "o", "g", "e">> }

\* the arguments and transport outcome of a fetch
Req(op, city, symbols, net) == [op |-> op, city |-> city, symbols |-> symbols, net |-> net]

NoReq == Req("none", "", <<>>, Raises("", InvalidBody))

NoOut == Outcome(None, <<>>, 0, FALSE)

(***************************************************************************)
(* API specification: a caller invokes one of the two fetch methods.       *)
(***************************************************************************)
\* every call a caller can make, with the answer the transport will give
WeatherReqs == {Req("weather", city, <<>>, net) : city \in {"", "Rio"}, net \in WeatherNets}

CryptoReqs ==
    {Req("crypto", "", symbols, net) : symbols \in SymbolLists, net \in CryptoNets(ApiObjects)}

Init ==
    /\ pc = "call"
    /\ choice = <<>>
    /\ req \in WeatherReqs \cup CryptoReqs
    /\ out = NoOut
    /\ shown = Nothing

CallWeather ==
    /\ pc = "call"
    /\ req.op = "weather"
    /\ out' = fetch_weather_data(req.city, req.net)
    /\ pc' = "returned"
    /\ UNCHANGED <<choice, req, shown>>

CallCrypto ==
    /\ pc = "call"
    /\ req.op = "crypto"
    /\ out' = fetch_crypto_prices(req.symbols, req.net)
    /\ pc' = "returned"
    /\ UNCHANGED <<choice, req, shown>>

Next == CallWeather \/ CallCrypto

Spec == Init /\ [][Next]_vars

(***************************************************************************)
(* main(): the first two queries and the interactive loop.                 *)
(***************************************************************************)
InitMain ==
    /\ pc = "prompt_city"
    /\ choice = <<>>
    /\ req = NoReq
    /\ out = NoOut
    /\ shown = Nothing

\* "if city:" fetch and display, else neither
WeatherQuery(line) ==
    LET city == Strip(line)
    IN  IF city # <<>>
        THEN \E net \in WeatherNets :
                /\ req' = Req("weather", Join(city), <<>>, net)
                /\ out' = fetch_weather_data(Join(city), net)
                /\ shown' = display_weather(fetch_weather_data(Join(city), net).ret)
        ELSE /\ req' = NoReq
             /\ out' = NoOut
             /\ shown' = Nothing

\* fetch and display of a list of symbols; an exception leaving
\* display_crypto_prices is caught nowhere and ends the program
CryptoQuery(symbols, after) ==
    \E net \in CryptoNets(MainObjects) :
        LET o == fetch_crypto_prices(symbols, net)
            d == display_crypto_prices(o.ret)
        IN  /\ req' = Req("crypto", "", symbols, net)
            /\ out' = o
            /\ shown' = d
            /\ pc' = IF d.crashed THEN "crashed" ELSE after

\* lines 167-170
MainCity ==
    /\ pc = "prompt_city"
    /\ \E line \in CityInputs : WeatherQuery(line)
    /\ pc' = "initial_crypto"
    /\ UNCHANGED choice

\* lines 173-176
MainCrypto ==
    /\ pc = "initial_crypto"
    /\ CryptoQuery(InitialSymbols, "menu")
    /\ UNCHANGED choice

\* lines 180-186 and the branch taken on the choice
NextPc(c) ==
    IF c = <<"1">> THEN "ask_city"
    ELSE IF c = <<"2">> THEN "ask_crypto"
    ELSE IF c = <<"3">> THEN "exited"
    ELSE "menu"

Choose ==
    /\ pc = "menu"
    /\ \E line \in ChoiceInputs :
          /\ choice' = Strip(line)
          /\ pc' = NextPc(Strip(line))
    /\ req' = NoReq
    /\ out' = NoOut
    /\ shown' = Nothing

\* lines 189-192
EnterCity ==
    /\ pc = "ask_city"
    /\ \E line \in CityInputs : WeatherQuery(line)
    /\ pc' = "menu"
    /\ UNCHANGED choice

\* lines 195-198
EnterCrypto ==
    /\ pc = "ask_crypto"
    /\ \E line \in CryptoInputs :
          LET crypto == Lower(Strip(line))
          IN  IF crypto # <<>>
              THEN CryptoQuery(<<Join(crypto)>>, "menu")
              ELSE /\ req' = NoReq
                   /\ out' = NoOut
                   /\ shown' = Nothing
                   /\ pc' = "menu"
    /\ UNCHANGED choice

NextMain == MainCity \/ MainCrypto \/ Choose \/ EnterCity \/ EnterCrypto

SpecMain == InitMain /\ [][NextMain]_vars

(***************************************************************************)
(* Properties.                                                             *)
(***************************************************************************)
Returned(op) == pc = "returned" /\ req.op = op

\* the call completed an HTTP exchange with status 200
Ok200 == req.net.exc = "" /\ req.net.status = 200

\* the elements of a sequence
Range(s) == {s[i] : i \in DOMAIN s}

\* the required paths missing from the weather body of the request
MissingPaths ==
    IF req.net.body.shape = "object"
    THEN {WeatherRequired[i] : i \in DOMAIN WeatherRequired} \ req.net.body.paths
    ELSE {WeatherRequired[i] : i \in DOMAIN WeatherRequired}

\* C1: for every 200 response, fetch_weather_data returns an error outcome
\* (None) when any required field is absent, and returns a record only when
\* every required field was present, each record field then holding the
\* upstream value and none a default.
C1_AllOrNothing ==
    (Returned("weather") /\ Ok200) =>
        /\ MissingPaths # {} => out.ret.kind = "None"
        /\ out.ret.kind = "dict" =>
              /\ MissingPaths = {}
              /\ DOMAIN out.ret.val = WeatherKeys
              /\ \A i \in DOMAIN WeatherRequired :
                    out.ret.val[WeatherKey(WeatherRequired[i])] # Str("N/A")
        /\ (MissingPaths = {}) => out.ret.kind = "dict"

\* a 200 response lacking only main.humidity was answered with None
C1_Witness ==
    /\ Returned("weather") /\ Ok200
    /\ MissingPaths = {"main.humidity"}
    /\ out.ret.kind = "None"

\* requested ids that are keys of the response, without and with a usd price
RequestedNoUsd ==
    {id \in Range(req.symbols) :
        id \in DOMAIN req.net.body.data /\ "usd" \notin DOMAIN req.net.body.data[id]}

RequestedWithUsd ==
    {id \in Range(req.symbols) :
        id \in DOMAIN req.net.body.data /\ "usd" \in DOMAIN req.net.body.data[id]}

\* C2 as stated: an id present without usd is skipped, the other requested
\* ids present with usd are still quoted
C2_Original ==
    (Returned("crypto") /\ Ok200 /\ req.net.body.shape = "object" /\ RequestedNoUsd # {}) =>
        /\ out.ret.kind = "dict"
        /\ DOMAIN out.ret.val.map = RequestedWithUsd

\* C2 amended: when a requested id is a key of the 200 response and its
\* entry has no usd price, the whole batch fails: the KeyError reaches the
\* generic handler, which prints it, and the call returns None, with no
\* quote for any id.
C2_BatchFails ==
    (Returned("crypto") /\ Ok200 /\ req.net.body.shape = "object" /\ RequestedNoUsd # {}) =>
        /\ out.ret.kind = "None"
        /\ out.printed = <<Line("exception", 0, "usd")>>

\* one requested id lacks usd, another has it, and the call returned None
C2_Witness ==
    /\ Returned("crypto") /\ Ok200 /\ req.net.body.shape = "object"
    /\ RequestedNoUsd # {}
    /\ RequestedWithUsd # {}
    /\ out.ret.kind = "None"

\* C3: whenever fetch_crypto_prices returns a mapping for a 200 response,
\* its key set is exactly the requested ids that are keys of the response;
\* ids absent from the response cause no error: a mapping is returned
\* whenever every requested id present in the response has a usd price.
C3_KeysAreIntersection ==
    (Returned("crypto") /\ Ok200 /\ req.net.body.shape = "object") =>
        /\ out.ret.kind = "dict" =>
              /\ DOMAIN out.ret.val.map = Range(req.symbols) \cap DOMAIN req.net.body.data
              /\ Range(out.ret.val.order) = DOMAIN out.ret.val.map
        /\ RequestedNoUsd = {} => out.ret.kind = "dict"

\* a mapping was returned although one requested id was absent from the
\* response, and it holds the requested id that was present
C3_Witness ==
    /\ Returned("crypto") /\ Ok200 /\ req.net.body.shape = "object"
    /\ out.ret.kind = "dict"
    /\ Range(req.symbols) \ DOMAIN req.net.body.data # {}
    /\ DOMAIN out.ret.val.map # {}

\* a mapping was returned and a response key that was not requested is not in it
C3_WitnessUnrequested ==
    /\ Returned("crypto") /\ Ok200 /\ req.net.body.shape = "object"
    /\ out.ret.kind = "dict"
    /\ DOMAIN req.net.body.data \ Range(req.symbols) # {}

\* the fetch of the request ends on a failure path: requests.get raised,
\* or the exchange completed with a status other than 200
TransportFailure == req.net.exc # "" \/ req.net.status # 200

\* C4 as stated: the fetch operations never print
C4_Original == pc = "returned" => out.printed = <<>>

\* C4 amended: on every failure path (timeout, connection failure, non-200
\* status, other exception) the fetch operations print exactly one error
\* line to the console and return None, so the error category and text go
\* to the console and not to the caller; a fetch that returns a record or a
\* mapping prints nothing.
C4_FailurePrintsAndReturnsNone ==
    pc = "returned" =>
        /\ TransportFailure => out.ret.kind = "None"
        /\ out.ret.kind = "None" => Len(out.printed) = 1
        /\ out.ret.kind = "dict" => out.printed = <<>>

\* a fetch whose transport raised returned None after printing a line
C4_Witness ==
    /\ pc = "returned"
    /\ req.net.exc = "ConnectionError"
    /\ out.ret.kind = "None"
    /\ Len(out.printed) = 1

\* C5 as stated: a non-200 status is returned as the error UpstreamStatus(code)
C5_Original ==
    (pc = "returned" /\ req.net.exc = "" /\ req.net.status # 200) =>
        /\ out.ret.kind = "UpstreamStatus"
        /\ ~out.parsed

\* C5 amended: for every completed exchange whose status is not 200, both
\* fetch operations print an error line carrying that status code and
\* return None; no record or mapping is returned and the body is never
\* parsed.
C5_StatusPrintedNoParse ==
    (pc = "returned" /\ req.net.exc = "" /\ req.net.status # 200) =>
        /\ out.ret.kind = "None"
        /\ out.printed = <<Line("status:" \o req.op, req.net.status, "")>>
        /\ ~out.parsed
        /\ out.sent = 1

\* a 404 answer to fetch_crypto_prices ended in None without parsing
C5_Witness ==
    /\ Returned("crypto")
    /\ req.net.exc = "" /\ req.net.status = 404
    /\ out.ret.kind = "None"
    /\ ~out.parsed

\* the transport timed out
TimedOut == req.net.exc \in {"ReadTimeout", "ConnectTimeout"}

\* C6 as stated: on a transport timeout the value returned is Timeout
C6_Original ==
    (pc = "returned" /\ TimedOut) => (out.ret.kind = "Timeout" /\ out.sent = 1)

\* C6 amended: when the transport times out, both fetch operations print
\* the timeout message, return None and make no further network call:
\* every invocation of a fetch operation issues exactly one outbound
\* request, whatever its outcome, with no retry.
C6_OneRequestNoRetry ==
    pc = "returned" =>
        /\ out.sent = 1
        /\ TimedOut => (out.ret.kind = "None" /\ out.printed = <<Line("timeout", 0, "")>>)

\* a timed out fetch_weather_data returned after one request
C6_Witness ==
    /\ Returned("weather")
    /\ req.net.exc = "ReadTimeout"
    /\ out.sent = 1
    /\ out.ret.kind = "None"

\* the category the caller of the request should be able to tell
Category ==
    IF TimedOut THEN "Timeout"
    ELSE IF req.net.exc = "ConnectionError" THEN "ConnectionFailure"
    ELSE "Unknown"

\* C7 as stated: the category is distinguishable in what the caller receives
C7_Original ==
    (pc = "returned" /\ req.net.exc # "") => out.ret.kind = Category

\* C7 amended: every fetch whose transport raises runs exactly one handler,
\* prints that handler's message and returns None: a timeout prints the
\* timeout message, a connection failure the connection message of its API,
\* any other exception "Error: " with the underlying message text, and a
\* connect timeout (both a timeout and a connection failure) the timeout
\* message. The category is told on the console only; the caller receives
\* None in every case.
C7_OneHandlerByCategory ==
    (pc = "returned" /\ req.net.exc # "") =>
        /\ out.ret.kind = "None"
        /\ out.printed =
              << CASE Category = "Timeout" -> Line("timeout", 0, "")
                   [] Category = "ConnectionFailure" -> Line("connect:" \o req.op, 0, "")
                   [] OTHER -> Line("exception", 0, req.net.exc) >>

\* a connect timeout was reported as a timeout
C7_Witness ==
    /\ pc = "returned"
    /\ req.net.exc = "ConnectTimeout"
    /\ out.printed = <<Line("timeout", 0, "")>>

\* the value a quote field must hold for an entry: upstream's, or the default
Expected(entry, field, default) ==
    IF field \in DOMAIN entry THEN entry[field] ELSE default

\* C8: in every quote returned by fetch_crypto_prices, each optional field
\* equals the upstream value when the response supplies it and its default
\* otherwise (change_24h 0, market_cap and volume_24h the sentinel 'N/A'),
\* so for market cap and volume an absent value differs from an upstream 0.
C8_OptionalFieldDefaults ==
    (Returned("crypto") /\ out.ret.kind = "dict") =>
        \A id \in DOMAIN out.ret.val.map :
            LET entry == req.net.body.data[id]
                quote == out.ret.val.map[id]
            IN  /\ quote.price = entry["usd"]
                /\ quote.change_24h = Expected(entry, "usd_24h_change", Num(0))
                /\ quote.market_cap = Expected(entry, "usd_market_cap", Str("N/A"))
                /\ quote.volume_24h = Expected(entry, "usd_24h_vol", Str("N/A"))
                /\ "usd_market_cap" \notin DOMAIN entry => quote.market_cap # Num(0)
                /\ "usd_24h_vol" \notin DOMAIN entry => quote.volume_24h # Num(0)

\* a quote was built from an entry with only a price, and another from an
\* entry whose market cap is an upstream 0
C8_Witness ==
    /\ Returned("crypto") /\ out.ret.kind = "dict"
    /\ \E id \in DOMAIN out.ret.val.map :
          /\ DOMAIN req.net.body.data[id] = {"usd"}
          /\ out.ret.val.map[id].market_cap = Str("N/A")
    /\ \E id \in DOMAIN out.ret.val.map :
          /\ "usd_market_cap" \in DOMAIN req.net.body.data[id]
          /\ out.ret.val.map[id].market_cap = Num(0)

\* C9 as stated: an empty list yields an empty mapping whatever the
\* transport outcome
C9_Original ==
    (Returned("crypto") /\ req.symbols = <<>>) =>
        (out.ret.kind = "dict" /\ out.ret.val = EmptyInfo)

\* C9 amended: fetch_crypto_prices called with an empty list still issues
\* its one network call, and yields an empty mapping exactly when that call
\* completes with status 200 and a body that parses as JSON; on a transport
\* exception, a non-200 status or an unparseable body it prints the error
\* and returns None.
C9_EmptyListNeedsOk ==
    (Returned("crypto") /\ req.symbols = <<>>) =>
        /\ out.sent = 1
        /\ IF Ok200 /\ req.net.body.shape # "invalid"
           THEN out.ret.kind = "dict" /\ out.ret.val = EmptyInfo /\ out.printed = <<>>
           ELSE out.ret.kind = "None" /\ Len(out.printed) = 1

\* an empty list answered by a 200 response with prices returned the empty
\* mapping after one request
C9_Witness ==
    /\ Returned("crypto") /\ req.symbols = <<>>
    /\ Ok200 /\ req.net.body.shape = "object" /\ DOMAIN req.net.body.data # {}
    /\ out.ret.kind = "dict" /\ out.ret.val = EmptyInfo
    /\ out.sent = 1

\* C10: the interactive loop ends only on choice '3': a program that has
\* stopped after a query of the loop (not the first price query of main)
\* stopped because the user chose '3'.
C10_LoopEndsOnlyOnThree ==
    (pc \in {"exited", "crashed"} /\ req.symbols # InitialSymbols) => choice = <<"3">>

====
